---- MODULE Spec2Model ----
(***************************************************************************)
(* A model of MetricTensor<real_t> (include/MetricTensor.h): the stored     *)
(* dimension and component buffer of each tensor, and its public            *)
(* operations: copy construction, set, set_metric, operator=, scale,        *)
(* constrain, the length queries, eigen_decomp and eigen_undecomp.          *)
(*                                                                          *)
(* Reals.  real_t is modelled by exact arithmetic in the field Q(sqrt 2):   *)
(* a scalar is <<x, y, z>>, standing for (x + y*sqrt(2)) / z with z > 0     *)
(* and gcd(x, y, z) = 1.  The field holds every entry, eigenvalue and       *)
(* normalised eigenvector component of the matrices the model draws its     *)
(* inputs from (frames along the axes and along the diagonals), so no       *)
(* rounding is modelled: equalities are the exact ones.  <<0, 0, 0>> is     *)
(* the non-finite value (NaN, or an infinity that a division by zero        *)
(* gives): it propagates through every arithmetic operation and every       *)
(* comparison with it is false, as for an IEEE NaN.                         *)
(*                                                                          *)
(* Eigen.  A fixed-size Eigen::Matrix is a sequence of d*d scalars in       *)
(* Eigen's default column-major storage; M[i] in the source is the          *)
(* storage (linear) index, M(r,c) the coefficient, and the comma            *)
(* initialiser fills coefficients row by row.  Eigen::EigenSolver is a      *)
(* library outside the repository: it is modelled by its contract (see      *)
(* EigenSolver below).                                                      *)
(***************************************************************************)
EXTENDS Integers, Sequences, FiniteSets, TLC

(***************************************************************************)
(* Scalars                                                                  *)
(***************************************************************************)
NaN == <<0, 0, 0>>

AbsI(n) == IF n < 0 THEN -n ELSE n

RECURSIVE GCD(_, _)
GCD(a, b) == IF b = 0 THEN a ELSE GCD(b, a % b)

\* (x + y*sqrt 2)/z in lowest terms with a positive denominator.
Q(x, y, z) ==
  IF z = 0 THEN NaN
  ELSE LET g == GCD(GCD(AbsI(x), AbsI(y)), AbsI(z))
           s == IF z < 0 THEN -1 ELSE 1
       IN  <<(s * x) \div g, (s * y) \div g, (s * z) \div g>>

Rat(n, d) == Q(n, 0, d)
Zero == Rat(0, 1)
One == Rat(1, 1)

IsNaN(a) == a[3] = 0

Add(a, b) ==
  IF IsNaN(a) \/ IsNaN(b) THEN NaN
  ELSE Q(a[1] * b[3] + b[1] * a[3], a[2] * b[3] + b[2] * a[3], a[3] * b[3])

Neg(a) == IF IsNaN(a) THEN NaN ELSE <<-a[1], -a[2], a[3]>>

Sub(a, b) == Add(a, Neg(b))

Mul(a, b) ==
  IF IsNaN(a) \/ IsNaN(b) THEN NaN
  ELSE Q(a[1] * b[1] + 2 * a[2] * b[2], a[1] * b[2] + a[2] * b[1], a[3] * b[3])

\* 1/a; 1/0 is non-finite.
Inv(a) ==
  IF IsNaN(a) THEN NaN
  ELSE Q(a[3] * a[1], -(a[3] * a[2]), a[1] * a[1] - 2 * a[2] * a[2])

Div(a, b) == Mul(a, Inv(b))

\* The sign of x + y*sqrt 2 (z > 0): -1, 0 or 1.
Sign(a) ==
  LET x == a[1]
      y == a[2]
      n == x * x - 2 * y * y
  IN  IF x >= 0 /\ y >= 0 THEN (IF x = 0 /\ y = 0 THEN 0 ELSE 1)
      ELSE IF x <= 0 /\ y <= 0 THEN -1
      ELSE IF x > 0 THEN (IF n > 0 THEN 1 ELSE -1)
      ELSE (IF n < 0 THEN 1 ELSE -1)

\* a < b; false when either is non-finite.
Lt(a, b) == ~IsNaN(a) /\ ~IsNaN(b) /\ Sign(Sub(b, a)) > 0

Le(a, b) == ~IsNaN(a) /\ ~IsNaN(b) /\ Sign(Sub(b, a)) >= 0

\* fabs / cwise().abs()
Abs(a) == IF IsNaN(a) THEN NaN ELSE IF Sign(a) < 0 THEN Neg(a) ELSE a

\* std::min(a, b) is (b < a) ? b : a; std::max(a, b) is (a < b) ? b : a.
StdMin(a, b) == IF Lt(b, a) THEN b ELSE a

StdMax(a, b) == IF Lt(a, b) THEN b ELSE a

\* The integer square roots of n (empty when n is no perfect square).
ISqrt(n) == {k \in 0..n : k * k = n}

\* Whether sqrt(a) lies in the field as r or r*sqrt 2 with r rational.
HasSqrt(a) ==
  \/ IsNaN(a)
  \/ /\ a[2] = 0
     /\ a[1] >= 0
     /\ (ISqrt(a[1] * a[3]) # {} \/ ISqrt(2 * a[1] * a[3]) # {})

\* cwise().sqrt(), for a with HasSqrt(a): sqrt(x/z) = sqrt(x*z)/z.
Sqrt(a) ==
  IF IsNaN(a) THEN NaN
  ELSE IF ISqrt(a[1] * a[3]) # {}
       THEN Q(CHOOSE k \in ISqrt(a[1] * a[3]) : TRUE, 0, a[3])
       ELSE Q(0, CHOOSE k \in ISqrt(2 * a[1] * a[3]) : TRUE, 2 * a[3])

(***************************************************************************)
(* Fixed-size Eigen matrices and vectors                                    *)
(***************************************************************************)
\* M(r, c), 0-based, of a d x d matrix in column-major storage.
Coeff(M, d, r, c) == M[c * d + r + 1]

\* The coefficients of an expression evaluated into a matrix or a vector.
Eval(e) == e \o <<>>

\* Storage index k (from 1) holds the coefficient of row (k - 1) % d and
\* column (k - 1) \div d.
\* M << b[0], b[1], ...: the comma initialiser fills row by row.
CommaInit(d, b) ==
  Eval([k \in 1..(d * d) |-> b[((k - 1) % d) * d + ((k - 1) \div d) + 1]])

\* for(i) M[i] = b[i]: a fill through the linear index.
LinearFill(d, b) ==
  Eval([k \in 1..(d * d) |-> b[k]])

\* for(i) b[i] = M[i]: a read-out through the linear index.
LinearRead(d, M) ==
  Eval([k \in 1..(d * d) |-> M[k]])

\* The sum of the first n of three terms, from the left (n is 2 or 3).
SumOf(n, a, b, c) == IF n = 2 THEN Add(a, b) ELSE Add(Add(a, b), c)

MatMul(A, B, d) ==
  Eval([k \in 1..(d * d) |->
     LET r == (k - 1) % d
         c == (k - 1) \div d
         T(i) == Mul(Coeff(A, d, r, i), Coeff(B, d, i, c))
     IN  SumOf(d, T(0), T(1), T(2))])

Transpose(A, d) ==
  Eval([k \in 1..(d * d) |-> Coeff(A, d, (k - 1) \div d, (k - 1) % d)])

\* v.asDiagonal()
AsDiagonal(v, d) ==
  Eval([k \in 1..(d * d) |->
     IF (k - 1) % d = (k - 1) \div d THEN v[((k - 1) % d) + 1] ELSE Zero])

\* M * v for a vector v (a sequence of d scalars).
MatVec(M, v, d) ==
  Eval([i \in 1..d |->
     LET T(k) == Mul(Coeff(M, d, i - 1, k), v[k + 1])
     IN  SumOf(d, T(0), T(1), T(2))])

VecScale(s, v) ==
  Eval([i \in 1..Len(v) |-> Mul(s, v[i])])

Dot(v, w) ==
  LET T(k) == Mul(v[k], w[k]) IN SumOf(Len(v), T(1), T(2), T(3))

Det2(a, b, c, e) == Sub(Mul(a, e), Mul(b, c))

Determinant(M, d) ==
  IF d = 2
  THEN Det2(Coeff(M, d, 0, 0), Coeff(M, d, 0, 1), Coeff(M, d, 1, 0), Coeff(M, d, 1, 1))
  ELSE LET m(r, c) == Coeff(M, d, r, c)
       IN  Add(Sub(Mul(m(0, 0), Det2(m(1, 1), m(1, 2), m(2, 1), m(2, 2))),
                   Mul(m(0, 1), Det2(m(1, 0), m(1, 2), m(2, 0), m(2, 2)))),
               Mul(m(0, 2), Det2(m(1, 0), m(1, 1), m(2, 0), m(2, 1))))

\* M.inverse() of a fixed 2x2 or 3x3 matrix: the cofactors times 1/det, so a
\* singular matrix gives non-finite coefficients.
Inverse(M, d) ==
  LET invdet == Inv(Determinant(M, d))
      m(r, c) == Coeff(M, d, r % d, c % d)
  IN  IF d = 2
      THEN Eval([k \in 1..(d * d) |->
              LET r == (k - 1) % d
                  c == (k - 1) \div d
              IN  Mul(IF r = c THEN m(1 - r, 1 - c) ELSE Neg(m(r, c)), invdet)])
      ELSE Eval([k \in 1..(d * d) |->
              LET r == (k - 1) % d
                  c == (k - 1) \div d
              IN  Mul(Det2(m(c + 1, r + 1), m(c + 1, r + 2),
                           m(c + 2, r + 1), m(c + 2, r + 2)), invdet)])

\* M.isZero(): every coefficient is (within the library's precision) zero;
\* the model's values are exact, so this is equality with zero.
IsZero(M) == \A k \in 1..Len(M) : M[k] = Zero

HasNaN(M) == \E k \in 1..Len(M) : IsNaN(M[k])

IsSymmetric(M, d) ==
  \A r \in 0..(d - 1) : \A c \in 0..(d - 1) : Coeff(M, d, r, c) = Coeff(M, d, c, r)

(***************************************************************************)
(* Eigen::EigenSolver                                                       *)
(*                                                                          *)
(* The solver is modelled by what it promises: real eigenvalues with        *)
(* eigenvectors of unit length as the columns of eigenvectors(), column k   *)
(* belonging to eigenvalue k.  The order of the eigenvalues and the sign    *)
(* of each eigenvector are the solver's own, so every order and every       *)
(* sign is a possible result, with one exception: an axis that the matrix   *)
(* already maps to a multiple of itself is left in place (the iteration     *)
(* has nothing to rotate there), so column k is the axis e_k and            *)
(* eigenvalue k the diagonal entry; a diagonal matrix gives the identity.   *)
(* For a symmetric matrix the columns are orthonormal.  A matrix with a     *)
(* non-finite coefficient gives non-finite results.  The unit vectors the   *)
(* model knows are those along the axes and along the diagonals of the      *)
(* x-y plane; a matrix with no eigenbasis among them has no result here     *)
(* and the operations on it are outside the model.                          *)
(***************************************************************************)
Half == Rat(1, 2)
\* sqrt(2)/2
HalfSqrt2 == Q(0, 1, 2)

PadTo(d, v) == [i \in 1..d |-> IF i <= Len(v) THEN v[i] ELSE Zero]

Axis(d, k) == [i \in 1..d |-> IF i = k THEN One ELSE Zero]

AxisVectors(d) == {Axis(d, k) : k \in 1..d}

DiagonalVectors(d) ==
  {PadTo(d, <<HalfSqrt2, HalfSqrt2>>), PadTo(d, <<Neg(HalfSqrt2), HalfSqrt2>>)}

UnitVectors(d) ==
  LET P == AxisVectors(d) \cup DiagonalVectors(d)
  IN  P \cup {VecScale(Neg(One), v) : v \in P}

\* For a unit vector v with M v = lambda v, lambda is v.(M v).
IsEigenvector(M, d, v) ==
  LET Mv == MatVec(M, v, d) IN Mv = VecScale(Dot(v, Mv), v)

FromColumns(d, vs) ==
  Eval([k \in 1..(d * d) |-> vs[((k - 1) \div d) + 1][((k - 1) % d) + 1]])

\* Linearly independent columns, orthogonal when M is symmetric.
IsEigenbasis(M, d, vs) ==
  /\ IsSymmetric(M, d) =>
       \A i \in 1..d : \A j \in 1..d : i < j => Dot(vs[i], vs[j]) = Zero
  /\ Determinant(FromColumns(d, vs), d) # Zero

\* The bases the solver may return as the columns of eigenvectors().
Eigenbases(M, d) ==
  LET fixed == {k \in 1..d : IsEigenvector(M, d, Axis(d, k))}
      E == {v \in UnitVectors(d) : IsEigenvector(M, d, v)}
      C(k) == IF k \in fixed THEN {Axis(d, k)} ELSE E
  IN  IF fixed = 1..d THEN {[k \in 1..d |-> Axis(d, k)]}
      ELSE IF d = 2
      THEN {vs \in {<<a, b>> : a \in C(1), b \in C(2)} : IsEigenbasis(M, d, vs)}
      ELSE {vs \in {<<a, b, c>> : a \in C(1), b \in C(2), c \in C(3)} :
              IsEigenbasis(M, d, vs)}

EigenSolver(M, d) ==
  IF HasNaN(M)
  THEN {[evalues |-> [i \in 1..d |-> NaN], evectors |-> [k \in 1..(d * d) |-> NaN]]}
  ELSE {[evalues |-> Eval([i \in 1..d |-> Dot(vs[i], MatVec(M, vs[i], d))]),
         evectors |-> FromColumns(d, vs)] : vs \in Eigenbases(M, d)}

\* solver.eigenvalues().real().cwise().abs()
AbsEvalues(s) == Eval([i \in 1..Len(s.evalues) |-> Abs(s.evalues[i])])

(***************************************************************************)
(* The state                                                                *)
(*                                                                          *)
(* Two tensors, each with the fields of the class.                          *)
(*   _dimension  the field                                                  *)
(*   _metric     NULL, or the first _dimension*_dimension elements of the   *)
(*               owned array, row-major; _metric[i] in the source is        *)
(*               element i + 1 here.  Elements of the array past these are  *)
(*               left out: no operation reads one before it writes it       *)
(*   allocated   the number of elements of the array _metric points to;     *)
(*               NotOwned when _metric is neither NULL nor an array the     *)
(*               tensor allocated                                           *)
(*   status      "running"; "aborted" after exit(-1); "fault" after an      *)
(*               access outside an array (undefined behaviour: the model    *)
(*               stops there and says nothing about what follows)           *)
(*   scratch     the caller's vectors D and V that eigen_decomp filled, and *)
(*               the tensor it decomposed; they live until the caller's     *)
(*               next statement                                             *)
(*   last        the call that has just returned: the operation, the        *)
(*               tensor, the arguments, and the tensor's dimension and      *)
(*               components before the call; op = "none" between calls      *)
(*   returned    the value the call that has just returned gave back, for   *)
(*               the length queries; NoValue otherwise                      *)
(***************************************************************************)
VARIABLES _dimension, _metric, allocated, status, scratch, last, returned

vars == <<_dimension, _metric, allocated, status, scratch, last, returned>>

\* Entries of the stored components stay within this magnitude (scale is the
\* one operation that could grow them without end).
MaxMag == 4

Tensors == {1, 2}

NULL == << <<>> >>

NotOwned == -1

NoScratch == [D |-> <<>>, V |-> <<>>, of |-> 0]

NoValue == <<>>

NoArgs == [dim |-> 0, M |-> <<>>, flag |-> FALSE, s |-> Zero, src |-> 0]

NoCall == [op |-> "none", t |-> 0, args |-> NoArgs,
           pre_dimension |-> 0, pre_metric |-> NULL]

\* The caller is between two calls.
Idle == status = "running" /\ last.op = "none"

Did(op, t, args) ==
  last' = [op |-> op, t |-> t, args |-> args,
           pre_dimension |-> _dimension[t], pre_metric |-> _metric[t]]

\* The default constructor.
Init ==
  /\ _dimension = [t \in Tensors |-> 0]
  /\ _metric = [t \in Tensors |-> NULL]
  /\ allocated = [t \in Tensors |-> 0]
  /\ status = "running"
  /\ scratch = NoScratch
  /\ last = NoCall
  /\ returned = NoValue

(***************************************************************************)
(* The inputs the callers pass                                              *)
(***************************************************************************)
Num(n) == Rat(n, 1)

Diag2(a, b) == <<a, Zero, Zero, b>>

\* a on the diagonal direction (1,1), b on (-1,1).
Rot2(a, b) ==
  LET p == Mul(Half, Add(a, b))
      q == Mul(Half, Sub(a, b))
  IN  <<p, q, q, p>>

Diag3(a, b, c) == <<a, Zero, Zero, Zero, b, Zero, Zero, Zero, c>>

Rot3(a, b, c) ==
  LET p == Mul(Half, Add(a, b))
      q == Mul(Half, Sub(a, b))
  IN  <<p, q, Zero, q, p, Zero, Zero, Zero, c>>

EigVals == {Zero, One, Num(4)}

\* Symmetric positive-semidefinite matrices.
Metrics(d) ==
  IF d = 2
  THEN {Diag2(a, b) : a, b \in EigVals}
         \cup {Rot2(Num(4), One), Rot2(One, Num(4)), Rot2(One, Zero)}
  ELSE {Diag3(Zero, Zero, Zero), Diag3(One, One, One), Diag3(Num(4), One, One),
        Diag3(One, Num(4), Zero), Rot3(Num(4), One, One)}

\* The identity.
Ones(d) == IF d = 2 THEN Diag2(One, One) ELSE Diag3(One, One, One)

\* Buffers that are no metric: indefinite, or not symmetric.
RawBuffers(d) ==
  IF d = 2
  THEN {Diag2(One, Num(-4)), Rot2(Num(-1), Num(4)), <<One, One, Zero, Num(2)>>}
  ELSE {Diag3(One, Num(-4), One),
        <<One, One, Zero, Zero, Num(2), Zero, Zero, Zero, One>>}

\* Buffers with a NaN: on the diagonal, above it, below it.
NaNBuffers(d) ==
  IF d = 2
  THEN {<<NaN, Zero, Zero, One>>, <<One, NaN, Zero, One>>, <<One, Zero, NaN, One>>}
  ELSE {[Diag3(One, One, One) EXCEPT ![3] = NaN],
        [Diag3(One, One, One) EXCEPT ![7] = NaN]}

Dimensions == {2, 3}

\* The buffers callers pass to constrain of a tensor of dimension d.
ConstrainInputs(d) ==
  IF d \in Dimensions THEN Metrics(d) \cup NaNBuffers(d) ELSE {<<>>}

ScaleFactors == {Num(-1), Zero, Num(4)}

InRange(a) == AbsI(a[1]) <= MaxMag /\ AbsI(a[2]) <= MaxMag /\ a[3] <= MaxMag

(***************************************************************************)
(* positive_definiteness                                                    *)
(***************************************************************************)
\* evectors * evalues.asDiagonal() * evectors.transpose()
Recompose(evectors, evalues, d) ==
  MatMul(MatMul(evectors, AsDiagonal(evalues, d), d), Transpose(evectors, d), d)

\* positive_definiteness without cwise().abs() on the eigenvalues.
positive_definiteness_noabs(dimension, metric) ==
  LET d == IF dimension = 2 THEN 2 ELSE 3
      M == CommaInit(d, metric)
  IN  IF IsZero(M) THEN {metric}
      ELSE {LinearRead(d, Recompose(s.evectors, s.evalues, d)) :
              s \in EigenSolver(M, d)}

\* The buffers positive_definiteness(dimension, metric) may leave in metric:
\* one for each result of the solver.
positive_definiteness(dimension, metric) ==
  LET d == IF dimension = 2 THEN 2 ELSE 3
      M == CommaInit(d, metric)
  IN  IF IsZero(M) THEN {metric}
      ELSE {LinearRead(d, Recompose(s.evectors, AbsEvalues(s), d)) :
              s \in EigenSolver(M, d)}

(***************************************************************************)
(* constrain                                                                *)
(***************************************************************************)
\* The NaN test of constrain: it visits M[i*d+j] for j >= i only.
NaNShortCircuit(M, d) ==
  \E i \in 0..(d - 1) : \E j \in i..(d - 1) : IsNaN(M[i * d + j + 1])

\* min(evalues)/max(evalues) of the absolute eigenvalues.
Aspect(evalues, d) ==
  IF d = 2
  THEN Div(StdMin(evalues[1], evalues[2]), StdMax(evalues[1], evalues[2]))
  ELSE Div(StdMin(StdMin(evalues[1], evalues[2]), evalues[3]),
           StdMax(StdMax(evalues[1], evalues[2]), evalues[3]))

Aspects(M, d) == {Aspect(AbsEvalues(s), d) : s \in EigenSolver(M, d)}

\* The matrix constrain hands to the solver for the aspect ratio: built by
\* the comma initialiser in 2D and through the linear index in 3D.
AspectMatrix(d, b) == IF d = 2 THEN CommaInit(d, b) ELSE LinearFill(d, b)

\* F = sqrt(|eigenvalues|).asDiagonal() * eigenvectors, for eigenvalues whose
\* square roots lie in the field.
WhiteningFactor(s, d) ==
  LET evalues == AbsEvalues(s)
  IN  MatMul(AsDiagonal([i \in 1..d |-> Sqrt(evalues[i])], d), s.evectors, d)

\* The eigenvalues of the whitened matrix, clamped from below or from above
\* by 1.
Clamp(evalues, perserved_small_edges) ==
  Eval([i \in 1..Len(evalues) |->
          IF perserved_small_edges THEN StdMax(One, evalues[i])
          ELSE StdMin(One, evalues[i])])

\* The second half of constrain: Mi mapped to the space where Mr is the
\* identity, clamped and mapped back; the set holds the buffer contents for
\* each result of the two solvers.
Superpose(Mr, Mi, d, perserved_small_edges) ==
  LET M1 == CommaInit(d, Mr)
      M2 == CommaInit(d, Mi)
      ok == {s \in EigenSolver(M1, d) : \A i \in 1..d : HasSqrt(AbsEvalues(s)[i])}
      \* F.inverse().transpose() * M2 * F.inverse()
      Whitened(Finv) == MatMul(MatMul(Transpose(Finv, d), M2, d), Finv, d)
      \* F.transpose() * evectors * evalues.asDiagonal() * evectors.transpose() * F
      Mc(F, s2) ==
        MatMul(MatMul(Transpose(F, d),
                      Recompose(s2.evectors,
                                Clamp(AbsEvalues(s2), perserved_small_edges), d), d),
               F, d)
  IN  UNION {LET F == WhiteningFactor(s, d)
                 Finv == Inverse(F, d)
             IN  {LinearRead(d, Mc(F, s2)) : s2 \in EigenSolver(Whitened(Finv), d)} :
               s \in ok}

\* The reference is the other matrix also when the aspect ratios are equal.
Reference_onequal(self, other, aspect_r, aspect_i) ==
  IF Le(aspect_r, aspect_i) THEN <<other, self>> ELSE <<self, other>>

\* The reference Mr and the target Mi: <<Mr, Mi>>.
Reference(self, other, aspect_r, aspect_i) ==
  IF Lt(aspect_r, aspect_i) THEN <<other, self>> ELSE <<self, other>>

\* The components constrain(M, perserved_small_edges) may leave in a tensor
\* of dimension d (2 or 3) that stores self.
Constrained(self, M, d, perserved_small_edges) ==
  IF NaNShortCircuit(M, d) THEN {self}
  ELSE IF IsZero(AspectMatrix(d, M)) THEN {self}
  ELSE UNION {UNION {LET ri == Reference(self, M, aspect_r, aspect_i)
                     IN  Superpose(ri[1], ri[2], d, perserved_small_edges) :
                       aspect_i \in Aspects(AspectMatrix(d, M), d)} :
                aspect_r \in Aspects(AspectMatrix(d, self), d)}

(***************************************************************************)
(* eigen_decomp and eigen_undecomp                                          *)
(***************************************************************************)
\* std::vector<double>(n): n zeros.
Zeros(n) == [k \in 1..n |-> Zero]

\* A vector the caller has used before: n elements that are not zero.
Used(n) == [k \in 1..n |-> One]

\* for(i < Len(w)) v[i] = w[i]
Written(v, w) == [k \in 1..Len(v) |-> IF k <= Len(w) THEN w[k] ELSE v[k]]

\* eigen_decomp that clears the vectors when the dimension is unsupported.
Decomposed_clearing(m, d, eigenvalues, eigenvectors) ==
  IF d \notin {2, 3}
  THEN {<<Zeros(Len(eigenvalues)), Zeros(Len(eigenvectors))>>}
  ELSE IF IsZero(CommaInit(d, m))
  THEN {<<Written(eigenvalues, Zeros(d)), Written(eigenvectors, Zeros(d * d))>>}
  ELSE {<<Written(eigenvalues, AbsEvalues(s)),
          Written(eigenvectors, LinearRead(d, Transpose(s.evectors, d)))>> :
          s \in EigenSolver(CommaInit(d, m), d)}

\* The vectors eigen_decomp(eigenvalues, eigenvectors) leaves in
\* <<eigenvalues, eigenvectors>>: one pair for each result of the solver.
\* The caller made the vectors with at least d and d*d elements.
Decomposed(m, d, eigenvalues, eigenvectors) ==
  IF d \notin {2, 3} THEN {<<eigenvalues, eigenvectors>>}
  ELSE IF IsZero(CommaInit(d, m))
  THEN {<<Written(eigenvalues, Zeros(d)), Written(eigenvectors, Zeros(d * d))>>}
  ELSE {<<Written(eigenvalues, AbsEvalues(s)),
          Written(eigenvectors, LinearRead(d, Transpose(s.evectors, d)))>> :
          s \in EigenSolver(CommaInit(d, m), d)}

(***************************************************************************)
(* The length queries: what they compute from the D of eigen_decomp         *)
(***************************************************************************)
\* sum = D[0]; for(i=1; i<n; i++) sum += D[i]
RECURSIVE SumD(_, _)
SumD(D, n) == IF n = 1 THEN D[1] ELSE Add(SumD(D, n - 1), D[n])

\* min = D[0]; for(i=1; i<n; i++) min = std::min(min, D[i])
RECURSIVE MinD(_, _)
MinD(D, n) == IF n = 1 THEN D[1] ELSE StdMin(MinD(D, n - 1), D[n])

\* max = D[0]; for(i=1; i<n; i++) max = std::max(max, D[i])
RECURSIVE MaxD(_, _)
MaxD(D, n) == IF n = 1 THEN D[1] ELSE StdMax(MaxD(D, n - 1), D[n])

\* The argument of the sqrt that each query returns.
AverageArg(D, d) == Div(One, Div(SumD(D, d), Num(d)))

\* max_length with std::max in place of std::min.
MaxLengthArg_max(D, d) == Div(One, MaxD(D, d))

MaxLengthArg(D, d) == Div(One, MinD(D, d))

MinLengthArg(D, d) == Div(One, MaxD(D, d))

\* eigen_undecomp without fabs on D.
Undecomposed_nofabs(D, V, d) ==
  [ii \in 1..(d * d) |->
     LET i == (ii - 1) \div d
         j == (ii - 1) % d
         T(k) == Mul(Mul(D[k + 1], V[k * d + i + 1]), V[k * d + j + 1])
     IN  SumOf(d, T(0), T(1), T(2))]

\* The components eigen_undecomp(D, V) stores.
Undecomposed(D, V, d) ==
  [ii \in 1..(d * d) |->
     LET i == (ii - 1) \div d
         j == (ii - 1) % d
         T(k) == Mul(Mul(Abs(D[k + 1]), V[k * d + i + 1]), V[k * d + j + 1])
     IN  SumOf(d, T(0), T(1), T(2))]

(***************************************************************************)
(* The operations                                                           *)
(***************************************************************************)
\* for(i < n) dst[i] = src[i]
Copy(src, n) == [k \in 1..n |-> src[k]]

\* set(dimension, metric), also the constructor from a buffer.
set(t, dimension, metric) ==
  /\ Idle
  /\ _dimension' = [_dimension EXCEPT ![t] = dimension]
  /\ allocated' = [allocated EXCEPT ![t] = dimension * dimension]
  /\ _metric' = [_metric EXCEPT ![t] = Copy(metric, dimension * dimension)]
  /\ Did("set", t, [NoArgs EXCEPT !.dim = dimension, !.M = metric])
  /\ UNCHANGED <<status, scratch, returned>>

\* set_metric without the test of the dimension.
set_metric_resizing(t, dimension, metric) ==
  /\ Idle
  /\ Did("set_metric", t, [NoArgs EXCEPT !.dim = dimension, !.M = metric])
  /\ UNCHANGED <<scratch, returned>>
  /\ _dimension' = [_dimension EXCEPT ![t] = dimension]
  /\ allocated' = [allocated EXCEPT ![t] = dimension * dimension]
  /\ \E m \in positive_definiteness(dimension, Copy(metric, dimension * dimension)) :
       _metric' = [_metric EXCEPT ![t] = m]
  /\ UNCHANGED status

set_metric(t, dimension, metric) ==
  /\ Idle
  /\ Did("set_metric", t, [NoArgs EXCEPT !.dim = dimension, !.M = metric])
  /\ UNCHANGED <<scratch, returned>>
  /\ IF _metric[t] # NULL /\ _dimension[t] # dimension
     THEN /\ status' = "aborted"
          /\ UNCHANGED <<_dimension, _metric, allocated>>
     ELSE /\ _dimension' = [_dimension EXCEPT ![t] = dimension]
          /\ allocated' = [allocated EXCEPT
                             ![t] = IF _metric[t] = NULL THEN dimension * dimension
                                    ELSE @]
          /\ \E m \in positive_definiteness(dimension,
                                             Copy(metric, dimension * dimension)) :
               _metric' = [_metric EXCEPT ![t] = m]
          /\ UNCHANGED status

\* operator=: t = src.
assign(t, src) ==
  /\ Idle
  /\ t # src
  /\ Did("operator=", t, [NoArgs EXCEPT !.src = src])
  /\ _dimension' = [_dimension EXCEPT ![t] = _dimension[src]]
  /\ UNCHANGED <<scratch, returned>>
  /\ LET n == _dimension[src] * _dimension[src]
         size == IF _metric[t] = NULL THEN n ELSE allocated[t]
     IN  /\ allocated' = [allocated EXCEPT ![t] = size]
         /\ IF n > 0 /\ n > size
            THEN \* writes past the end of the array
                 /\ status' = "fault"
                 /\ UNCHANGED _metric
            ELSE /\ _metric' = [_metric EXCEPT ![t] = Copy(_metric[src], n)]
                 /\ UNCHANGED status

\* What the copy constructor may find in _metric, which nothing has
\* initialised when operator= tests it: NULL or another address.
Uninitialised == {"NULL", "other"}

\* MetricTensor t(src) in the storage of the tensor t that was there before,
\* whose lifetime ends first (a declaration in a block that is entered
\* again): the destructor, then the copy constructor, which is operator= on
\* uninitialised fields.
copy_construct(t, src) ==
  /\ Idle
  /\ t # src
  /\ Did("copy", t, [NoArgs EXCEPT !.src = src])
  /\ UNCHANGED <<scratch, returned>>
  /\ IF allocated[t] = NotOwned
     THEN \* the destructor deletes an array that is not the tensor's
          /\ status' = "fault"
          /\ UNCHANGED <<_dimension, _metric, allocated>>
     ELSE \E found \in Uninitialised :
            LET n == _dimension[src] * _dimension[src]
            IN  /\ _dimension' = [_dimension EXCEPT ![t] = _dimension[src]]
                /\ IF found = "NULL"
                   THEN /\ allocated' = [allocated EXCEPT ![t] = n]
                        /\ _metric' = [_metric EXCEPT ![t] = Copy(_metric[src], n)]
                        /\ UNCHANGED status
                   ELSE /\ allocated' = [allocated EXCEPT ![t] = NotOwned]
                        /\ IF n > 0
                           THEN \* writes through the address it found
                                /\ status' = "fault"
                                /\ UNCHANGED _metric
                           ELSE /\ _metric' = [_metric EXCEPT ![t] = <<>>]
                                /\ UNCHANGED status

scale(t, scale_factor) ==
  /\ Idle
  /\ LET n == _dimension[t] * _dimension[t]
         scaled == [k \in 1..n |-> Mul(_metric[t][k], scale_factor)]
     IN  /\ \A k \in 1..n : InRange(scaled[k])
         /\ _metric' = [_metric EXCEPT ![t] = IF @ = NULL THEN NULL ELSE scaled]
  /\ Did("scale", t, [NoArgs EXCEPT !.s = scale_factor])
  /\ UNCHANGED <<_dimension, allocated, status, scratch, returned>>

constrain(t, M, perserved_small_edges) ==
  /\ Idle
  /\ Did("constrain", t, [NoArgs EXCEPT !.M = M, !.flag = perserved_small_edges])
  /\ UNCHANGED <<_dimension, allocated, scratch, returned>>
  /\ LET d == _dimension[t]
     IN  IF d \notin {2, 3}
         THEN \* the 3D branch reads nine elements of a shorter array
              /\ status' = "fault"
              /\ UNCHANGED _metric
         ELSE /\ \E m \in Constrained(_metric[t], M, d, perserved_small_edges) :
                   _metric' = [_metric EXCEPT ![t] = m]
              /\ UNCHANGED status

\* eigen_decomp(eigenvalues, eigenvectors) with vectors that the caller made
\* for a tensor of dimension n and has used before.
eigen_decomp(t, n) ==
  /\ Idle
  /\ _dimension[t] \in Dimensions => n = _dimension[t]
  /\ \E DV \in Decomposed(_metric[t], _dimension[t], Used(n), Used(n * n)) :
       scratch' = [D |-> DV[1], V |-> DV[2], of |-> t]
  /\ Did("eigen_decomp", t, NoArgs)
  /\ UNCHANGED <<_dimension, _metric, allocated, status, returned>>

\* eigen_undecomp(D, V), the caller's next statement after eigen_decomp, with
\* the vectors it filled; the caller may have flipped the signs of D.
eigen_undecomp(t, flip) ==
  /\ status = "running"
  /\ last.op = "eigen_decomp"
  /\ last.t = t
  /\ LET d == _dimension[t]
         D == IF flip THEN [k \in 1..d |-> Neg(scratch.D[k])] ELSE scratch.D
     IN  _metric' = [_metric EXCEPT
                       ![t] = IF @ = NULL THEN NULL ELSE Undecomposed(D, scratch.V, d)]
  /\ last' = [op |-> "eigen_undecomp", t |-> t,
              args |-> [NoArgs EXCEPT !.flag = flip],
              pre_dimension |-> _dimension[t], pre_metric |-> _metric[t]]
  /\ UNCHANGED <<_dimension, allocated, status, scratch, returned>>

\* What a length query returns when it read D[0] of a D without elements and
\* the read did not fault: a value computed from whatever was there.
OutOfBounds == {NaN, Zero, One}

\* The body the three length queries share.  D and V are made with d and d*d
\* zeros and eigen_decomp fills them; then D[0] is read, which lies outside
\* the vector when d is 0.  Arg is
\* the argument of the final sqrt; a root outside the field of the model is
\* left out.
LengthQuery(op, t) ==
  /\ Idle
  /\ Did(op, t, NoArgs)
  /\ UNCHANGED <<_dimension, _metric, allocated, scratch>>
  /\ LET d == _dimension[t]
         Arg(D) == CASE op = "average_length" -> AverageArg(D, d)
                     [] op = "max_length" -> MaxLengthArg(D, d)
                     [] op = "min_length" -> MinLengthArg(D, d)
     IN  IF d = 0
         THEN \/ /\ status' = "fault"
                 /\ returned' = NoValue
              \/ /\ returned' \in OutOfBounds
                 /\ UNCHANGED status
         ELSE /\ \E DV \in Decomposed(_metric[t], d, Zeros(d), Zeros(d * d)) :
                   /\ HasSqrt(Arg(DV[1]))
                   /\ returned' = Sqrt(Arg(DV[1]))
              /\ UNCHANGED status

average_length(t) == LengthQuery("average_length", t)

max_length(t) == LengthQuery("max_length", t)

min_length(t) == LengthQuery("min_length", t)

\* The call has returned and the caller goes on to its next statement; the
\* vectors of eigen_decomp go out of scope.
Continue ==
  /\ status = "running"
  /\ last.op # "none"
  /\ last' = NoCall
  /\ scratch' = NoScratch
  /\ returned' = NoValue
  /\ UNCHANGED <<_dimension, _metric, allocated, status>>

\* Tensor 1 is the tensor operated on; tensor 2 is a second tensor of the
\* caller, the source of assignments.
Next ==
  \/ \E d \in Dimensions : \E m \in Metrics(d) \cup RawBuffers(d) : set(1, d, m)
  \/ \E d \in Dimensions : set(2, d, Ones(d))
  \/ \E d \in Dimensions : \E m \in Metrics(d) \cup RawBuffers(d) : set_metric(1, d, m)
  \/ assign(1, 2)
  \/ copy_construct(1, 2)
  \/ \E s \in ScaleFactors : scale(1, s)
  \/ \E flag \in BOOLEAN :
       \E M \in ConstrainInputs(_dimension[1]) : constrain(1, M, flag)
  \/ \E n \in Dimensions : eigen_decomp(1, n)
  \/ average_length(1)
  \/ max_length(1)
  \/ min_length(1)
  \/ \E flip \in BOOLEAN : eigen_undecomp(1, flip)
  \/ Continue

Spec == Init /\ [][Next]_vars
(***************************************************************************)
(* Properties                                                               *)
(*                                                                          *)
(* m is a row-major buffer of d*d scalars, as the tensor stores it.         *)
(***************************************************************************)
Entry(m, d, i, j) == m[i * d + j + 1]

\* m[i*d+j] == m[j*d+i] for all i, j (false for a NaN, as == is).
Symmetric(m, d) ==
  /\ ~HasNaN(m)
  /\ \A i \in 0..(d - 1) : \A j \in 0..(d - 1) : Entry(m, d, i, j) = Entry(m, d, j, i)

Minor2(m, d, i, j) ==
  Det2(Entry(m, d, i, i), Entry(m, d, i, j), Entry(m, d, j, i), Entry(m, d, j, j))

\* All eigenvalues of a symmetric m are >= 0: every principal minor is.
PositiveSemidefinite(m, d) ==
  /\ \A i \in 0..(d - 1) : Le(Zero, Entry(m, d, i, i))
  /\ \A i \in 0..(d - 1) : \A j \in 0..(d - 1) : i < j => Le(Zero, Minor2(m, d, i, j))
  /\ Le(Zero, Determinant(CommaInit(d, m), d))

\* All eigenvalues of a symmetric m are > 0: every leading minor is.
PositiveDefinite(m, d) ==
  /\ Lt(Zero, Entry(m, d, 0, 0))
  /\ Lt(Zero, Minor2(m, d, 0, 1))
  /\ Lt(Zero, Determinant(CommaInit(d, m), d))

IsMetric(m, d) == Symmetric(m, d) /\ PositiveSemidefinite(m, d)

IsDefiniteMetric(m, d) == Symmetric(m, d) /\ PositiveDefinite(m, d)

\* v^T m v
Quad(m, d, v) == Dot(v, MatVec(CommaInit(d, m), v, d))

IsZeroBuffer(m) == \A k \in 1..Len(m) : m[k] = Zero

IsDiagonalBuffer(m, d) ==
  \A i \in 0..(d - 1) : \A j \in 0..(d - 1) : i # j => Entry(m, d, i, j) = Zero

\* The call op has just returned normally on a tensor of dimension 2 or 3.
Returned(op) ==
  /\ status = "running"
  /\ last.op = op
  /\ _dimension[last.t] \in Dimensions

\* The tensor of the last call: its dimension, its components now and
\* before the call.
Dim == _dimension[last.t]
Now == _metric[last.t]
Pre == last.pre_metric

C2_DimensionLocked ==
  (status = "running" /\ last.op # "none" /\ last.pre_metric # NULL)
    => _dimension[last.t] = last.pre_dimension

(***************************************************************************)
(* C3: set_metric with another dimension                                    *)
(***************************************************************************)
\* C3: set_metric on an initialised tensor aborts exactly when the dimension
\* differs, and then neither the dimension nor a component has changed.
C3_SetMetricAbort ==
  (last.op = "set_metric" /\ last.pre_metric # NULL)
    => IF last.args.dim # last.pre_dimension
       THEN /\ status = "aborted"
            /\ _dimension[last.t] = last.pre_dimension
            /\ _metric[last.t] = last.pre_metric
       ELSE status = "running"

\* set_metric(3, m) has aborted on a tensor of dimension 2.
C3_Witness ==
  /\ status = "aborted"
  /\ last.op = "set_metric"
  /\ last.pre_dimension = 2
  /\ last.args.dim = 3
  /\ _metric[last.t] = last.pre_metric

(***************************************************************************)
(* C4, C5: constrain with a NaN in the other matrix, and on a zero tensor   *)
(***************************************************************************)
\* C4: constrain leaves every component of the tensor as it was whenever one
\* of the d*d components of the other matrix is NaN, wherever it sits.
C4_NaNShortCircuit ==
  (Returned("constrain") /\ HasNaN(last.args.M)) => Now = Pre

\* C5: constrain on a tensor that stores the zero matrix, with another matrix
\* free of NaN, leaves every component zero.
C5_ZeroPreserved ==
  (Returned("constrain") /\ IsZeroBuffer(Pre) /\ ~HasNaN(last.args.M))
    => IsZeroBuffer(Now)

(***************************************************************************)
(* C6, C7: what constrain computes for positive-definite matrices           *)
(***************************************************************************)
\* C6: for positive-definite A (the tensor) and B (the other matrix) the
\* result C of constrain has v^T C v >= max(v^T A v, v^T B v) for every
\* direction v when small edges are preserved, and <= min otherwise; for
\* diagonal A and B it is the component-wise max (min) of the diagonals.
C6_ConstrainMonotone ==
  (Returned("constrain") /\ IsDefiniteMetric(Pre, Dim)
     /\ IsDefiniteMetric(last.args.M, Dim))
    => LET A == Pre
           B == last.args.M
           d == Dim
       IN  /\ \A v \in UnitVectors(d) :
                IF last.args.flag
                THEN Le(StdMax(Quad(A, d, v), Quad(B, d, v)), Quad(Now, d, v))
                ELSE Le(Quad(Now, d, v), StdMin(Quad(A, d, v), Quad(B, d, v)))
           /\ (IsDiagonalBuffer(A, d) /\ IsDiagonalBuffer(B, d))
                => Now = [k \in 1..(d * d) |->
                            IF last.args.flag THEN StdMax(A[k], B[k])
                            ELSE StdMin(A[k], B[k])]

\* C7: constrain of a positive-definite tensor with its own matrix leaves the
\* components as they were, and the factor F of the reference has F^T F = Mr.
C7_ConstrainIdempotent ==
  (Returned("constrain") /\ IsDefiniteMetric(Pre, Dim) /\ last.args.M = Pre)
    => /\ Now = Pre
       /\ \A s \in EigenSolver(CommaInit(Dim, Pre), Dim) :
            LET F == WhiteningFactor(s, Dim)
            IN  MatMul(Transpose(F, Dim), F, Dim) = CommaInit(Dim, Pre)

(***************************************************************************)
(* C8, C9: eigen_decomp and eigen_undecomp                                  *)
(***************************************************************************)
\* C8: eigen_decomp and then eigen_undecomp with the D and V it gave restores
\* the components of a positive-definite tensor.
C8_RoundTrip ==
  (Returned("eigen_undecomp") /\ ~last.args.flag /\ IsDefiniteMetric(Pre, Dim))
    => Now = Pre

\* Row k of the row-major V.
Row(V, d, k) == [i \in 1..d |-> V[k * d + i]]

\* C9: row k of the V that eigen_decomp returns is the eigenvector that
\* belongs to D[k] (D holds the absolute value of the eigenvalue).
C9_RowsAreEigenvectors ==
  (Returned("eigen_decomp") /\ Symmetric(Now, Dim) /\ ~IsZeroBuffer(Now))
    => \A k \in 0..(Dim - 1) :
         LET v == Row(scratch.V, Dim, k)
             Mv == MatVec(CommaInit(Dim, Now), v, Dim)
         IN  /\ Dot(v, v) = One
             /\ Mv = VecScale(scratch.D[k + 1], v)
                  \/ Mv = VecScale(Neg(scratch.D[k + 1]), v)

(***************************************************************************)
(* C10: positive_definiteness, as set_metric applies it to the buffer       *)
(***************************************************************************)
\* The matrix has real eigenvalues and a basis of eigenvectors.
Diagonalisable(m, d) == ~HasNaN(m) /\ Eigenbases(CommaInit(d, m), d) # {}

\* Every eigenvector v of m (eigenvalue lambda) is one of r for |lambda|.
SameEigenvectors(m, r, d) ==
  \A v \in UnitVectors(d) :
    IsEigenvector(CommaInit(d, m), d, v)
      => MatVec(CommaInit(d, r), v, d) = VecScale(Abs(Quad(m, d, v)), v)

\* diag(|m_ii|) for a diagonal m.
AbsDiagonal(m) == [k \in 1..Len(m) |-> Abs(m[k])]

\* C10, as stated: for every m that is diagonalisable with real eigenvalues,
\* symmetric or not, the result has no negative eigenvalue and the
\* eigenvectors of m with eigenvalues |lambda_k|; for diagonal m it is
\* diag(|m_ii|).
C10_AnyDiagonalisable ==
  (Returned("set_metric") /\ Diagonalisable(last.args.M, Dim))
    => /\ IsMetric(Now, Dim)
       /\ SameEigenvectors(last.args.M, Now, Dim)
       /\ IsDiagonalBuffer(last.args.M, Dim) => Now = AbsDiagonal(last.args.M)

\* C10, amended: for every symmetric m the result is symmetric with no
\* negative eigenvalue and has the eigenvectors of m with eigenvalues
\* |lambda_k|; for diagonal m it is diag(|m_ii|).
C10_SymmetricInput ==
  (Returned("set_metric") /\ Symmetric(last.args.M, Dim)
     /\ Diagonalisable(last.args.M, Dim))
    => /\ IsMetric(Now, Dim)
       /\ SameEigenvectors(last.args.M, Now, Dim)
       /\ IsDiagonalBuffer(last.args.M, Dim) => Now = AbsDiagonal(last.args.M)

\* set_metric has reflected the negative eigenvalue of a symmetric matrix
\* that is not diagonal.
C10_Witness ==
  /\ Returned("set_metric")
  /\ last.args.M = Rot2(Num(-1), Num(4))
  /\ Now = Rot2(One, Num(4))

(***************************************************************************)
(* C11: the length queries                                                  *)
(***************************************************************************)
\* The diagonal entries of m, and their sum.
DiagonalEntries(m, d) == {Entry(m, d, i, i) : i \in 0..(d - 1)}

Trace(m, d) ==
  SumOf(d, Entry(m, d, 0, 0), Entry(m, d, 1, 1), Entry(m, d, d - 1, d - 1))

Largest(S) == CHOOSE x \in S : \A y \in S : Le(y, x)

Smallest(S) == CHOOSE x \in S : \A y \in S : Le(x, y)

\* m is diagonal with all entries of the diagonal positive.
IsPositiveDiagonal(m, d) ==
  /\ IsDiagonalBuffer(m, d)
  /\ \A x \in DiagonalEntries(m, d) : Lt(Zero, x)

\* r is the non-negative root of a.
IsRootOf(r, a) == Le(Zero, r) /\ Mul(r, r) = a

\* A length query has just returned on a tensor that stores a diagonal
\* matrix with positive entries.
QueriedPositiveDiagonal(op) == Returned(op) /\ IsPositiveDiagonal(Now, Dim)

\* C11: on a tensor that stores a diagonal matrix with positive entries,
\* min_length returns 1/sqrt(largest entry), max_length returns
\* 1/sqrt(smallest entry) and average_length returns sqrt(d / sum of the
\* entries), which lies between the other two.
C11_LengthQueries ==
  /\ QueriedPositiveDiagonal("min_length")
       => IsRootOf(returned, Div(One, Largest(DiagonalEntries(Now, Dim))))
  /\ QueriedPositiveDiagonal("max_length")
       => IsRootOf(returned, Div(One, Smallest(DiagonalEntries(Now, Dim))))
  /\ QueriedPositiveDiagonal("average_length")
       => /\ IsRootOf(returned, Div(Num(Dim), Trace(Now, Dim)))
          /\ Le(Div(One, Largest(DiagonalEntries(Now, Dim))),
                Mul(returned, returned))
          /\ Le(Mul(returned, returned),
                Div(One, Smallest(DiagonalEntries(Now, Dim))))

\* average_length has returned sqrt(2)/2 on diag(4, 1, 1), strictly between
\* 1/sqrt(4) and 1/sqrt(1).
C11_Witness ==
  /\ QueriedPositiveDiagonal("average_length")
  /\ Now = Diag3(Num(4), One, One)
  /\ returned = HalfSqrt2

(***************************************************************************)
(* C12: copies                                                              *)
(***************************************************************************)
\* C12: after copy construction from a tensor or assignment of a tensor, to
\* a tensor in any state, the call has completed and the tensor owns an
\* array that holds the dimension and the components of the source.
C12_DeepCopy ==
  last.op \in {"operator=", "copy"}
    => LET t == last.t
           src == last.args.src
           n == _dimension[src] * _dimension[src]
       IN  /\ status = "running"
           /\ _dimension[t] = _dimension[src]
           /\ _metric[t] # NULL
           /\ allocated[t] # NotOwned
           /\ allocated[t] >= n
           /\ \A k \in 1..n : _metric[t][k] = _metric[src][k]

(***************************************************************************)
(* C13: eigen_decomp on an unsupported dimension                            *)
(***************************************************************************)
\* eigen_decomp has just returned on a tensor whose dimension is not 2 or 3.
DecomposedUnsupported ==
  /\ status = "running"
  /\ last.op = "eigen_decomp"
  /\ last.pre_dimension \notin {2, 3}

\* C13: eigen_decomp on a tensor whose dimension is not 2 or 3 writes no
\* element of the caller's D and V and leaves the dimension and the
\* components of the tensor as they were.
C13_UnsupportedNoOp ==
  DecomposedUnsupported
    => /\ scratch.D = Used(Len(scratch.D))
       /\ scratch.V = Used(Len(scratch.V))
       /\ _dimension[last.t] = last.pre_dimension
       /\ _metric[last.t] = last.pre_metric

\* eigen_decomp has returned on a default-constructed tensor, called with
\* vectors of 3 and 9 elements.
C13_Witness ==
  /\ DecomposedUnsupported
  /\ _metric[last.t] = NULL
  /\ Len(scratch.D) = 3
  /\ Len(scratch.V) = 9

(***************************************************************************)
(* C14: the reference of constrain                                          *)
(***************************************************************************)
\* constrain has just returned past its two early returns, on a tensor and
\* another matrix that both have a finite aspect ratio.
Superposed ==
  /\ Returned("constrain")
  /\ ~NaNShortCircuit(last.args.M, Dim)
  /\ ~IsZero(CommaInit(Dim, last.args.M))
  /\ ~IsZero(CommaInit(Dim, Pre))
  /\ ~HasNaN(Pre)

\* The aspect ratios min|eigenvalue| / max|eigenvalue| of the matrix a
\* row-major buffer holds.
AspectRatios(m, d) == Aspects(CommaInit(d, m), d)

\* The components left when ref is whitened and target is mapped to its
\* space.
SuperposedOn(ref, target) == Superpose(ref, target, Dim, last.args.flag)

C14_WitnessEqual ==
  /\ Superposed
  /\ AspectRatios(Pre, Dim) = AspectRatios(last.args.M, Dim)
  /\ Now \in SuperposedOn(Pre, last.args.M)
  /\ Now \notin SuperposedOn(last.args.M, Pre)

(***************************************************************************)
(* C15: the bounds of the arrays                                            *)
(***************************************************************************)
\* C15: in every reachable state no operation has read or written an
\* element outside the array or vector it indexed, and the array a tensor
\* holds has exactly _dimension * _dimension elements.
C15_MemorySafe ==
  /\ status # "fault"
  /\ \A t \in Tensors :
       _metric[t] # NULL => allocated[t] = _dimension[t] * _dimension[t]

====
